---- MODULE Spec2Model ----
(***************************************************************************)
(* Model of class DAG of "The Low Level Problem/prog.py": construction     *)
(* with Kahn's cycle validation, path_counts, enumerate_paths,             *)
(* neighbors_of and propose_vprime_insertion.                              *)
(*                                                                         *)
(* A dict is a function whose DOMAIN is the key set; a defaultdict(list)   *)
(* inserts the key with an empty list when a missing key is read.  A list  *)
(* is a sequence, a tuple is a tuple, a set of ints is a set that is       *)
(* iterated in ascending order (CPython hashes a small non-negative int to *)
(* itself, so the slots of the set's table are visited in that order).     *)
(***************************************************************************)
EXTENDS Integers, Sequences, FiniteSets, TLC

\* ---------------------------------------------------------------- bounds
\* vertex identifiers offered to the constructor and the queries: 0..MaxVertex
MaxVertex == 3
\* longest edge list offered to the constructor
MaxEdges == 3

VertexIds == 0..MaxVertex
\* weight_default values offered to propose_vprime_insertion
DefaultWeights == {0, 7}

\* The weight offered for the i-th edge of a list: -1, 2, 5, ...  The program
\* never branches on a weight; distinct weights (one of them negative) make
\* the cost of a path tell which edges it followed.
EdgeWeight(i) == 3 * i - 4

\* every edge list of up to n edges over VertexIds (self-loops, parallel and
\* opposite edges included)
RECURSIVE EdgeLists(_)
EdgeLists(n) ==
    IF n = 0 THEN {<<>>}
    ELSE LET shorter == EdgeLists(n - 1)
         IN  shorter \cup {Append(l, <<u, v, EdgeWeight(n)>>) :
                             l \in {s \in shorter : Len(s) = n - 1}, u \in VertexIds, v \in VertexIds}

\* pc: "new" before the constructor runs, "failed" after it raised ValueError,
\*     "ready" for a call, "returned" when a call has returned
\* edges, src, adj, rev_adj, vertices, topo: the fields of the instance
\* op, arg, ret: the last call, its arguments and what it returned
VARIABLES pc, edges, src, adj, rev_adj, vertices, topo, op, arg, ret

graph == <<edges, src, adj, rev_adj, vertices, topo>>
vars == <<pc, edges, src, adj, rev_adj, vertices, topo, op, arg, ret>>

\* ------------------------------------------------------- python helpers
\* the empty dict
EmptyDict == [k \in {} |-> <<>>]

\* d[k] of a defaultdict(list): the mapping after the read
Touch(d, k) == IF k \in DOMAIN d THEN d ELSE [x \in DOMAIN d \cup {k} |-> IF x = k THEN <<>> ELSE d[x]]

\* d[k] of a defaultdict(list): the value read
Get(d, k) == IF k \in DOMAIN d THEN d[k] ELSE <<>>

\* d[k].append(x) of a defaultdict(list)
AppendTo(d, k, x) == [y \in DOMAIN d \cup {k} |-> IF y = k THEN Append(Get(d, k), x) ELSE d[y]]

SetMin(S) == CHOOSE m \in S : \A x \in S : m <= x
SetMax(S) == CHOOSE m \in S : \A x \in S : m >= x

\* iteration order of a set of small non-negative ints
RECURSIVE IterOrder(_)
IterOrder(S) == IF S = {} THEN <<>> ELSE LET m == SetMin(S) IN <<m>> \o IterOrder(S \ {m})

\* ------------------------------------------------------------- __init__
\* the loop of __init__ over the first n edges: adj, rev_adj and vertices
RECURSIVE BuildAdj(_, _)
BuildAdj(es, n) ==
    IF n = 0 THEN [adj |-> EmptyDict, rev_adj |-> EmptyDict, vertices |-> {}]
    ELSE LET b == BuildAdj(es, n - 1)
             u == es[n][1]
             v == es[n][2]
             w == es[n][3]
         IN  [adj      |-> AppendTo(b.adj, u, <<v, w>>),
              rev_adj  |-> AppendTo(b.rev_adj, v, <<u, w>>),
              vertices |-> b.vertices \cup {u, v}]

\* ---------------------------------------------------------- _validate_dag
\* indeg after the two loops that fill it
InDegrees(es, V) == [v \in V |-> Cardinality({i \in 1..Len(es) : es[i][2] = v})]

\* the inner loop "for v, _ in self.adj[u]" from position i
RECURSIVE Relax(_, _, _, _)
Relax(out, i, indeg, q) ==
    IF i > Len(out) THEN [indeg |-> indeg, q |-> q]
    ELSE LET v  == out[i][1]
             d  == [indeg EXCEPT ![v] = @ - 1]
             q2 == IF d[v] = 0 THEN Append(q, v) ELSE q
         IN  Relax(out, i + 1, d, q2)

\* KahnLoop with topo.insert(0, u) for topo.append(u): the order comes out reversed
RECURSIVE KahnLoopPrepend(_, _, _, _)
KahnLoopPrepend(q, tp, indeg, a) ==
    IF q = <<>> THEN [topo |-> tp, adj |-> a]
    ELSE LET u  == Head(q)
             a2 == Touch(a, u)
             r  == Relax(a2[u], 1, indeg, Tail(q))
         IN  KahnLoopPrepend(r.q, <<u>> \o tp, r.indeg, a2)

\* the loop "while q"
RECURSIVE KahnLoop(_, _, _, _)
KahnLoop(q, tp, indeg, a) ==
    IF q = <<>> THEN [topo |-> tp, adj |-> a]
    ELSE LET u  == Head(q)
             a2 == Touch(a, u)
             r  == Relax(a2[u], 1, indeg, Tail(q))
         IN  KahnLoop(r.q, Append(tp, u), r.indeg, a2)

\* ValidateDag with the queue seeded by the first zero-indegree vertex alone
ValidateDagSeedOne(es, V, a) ==
    LET indeg == InDegrees(es, V)
        order == IterOrder(V)
        zero  == SelectSeq(order, LAMBDA v : indeg[v] = 0)
        q0    == IF zero = <<>> THEN <<>> ELSE <<Head(zero)>>
        k     == KahnLoop(q0, <<>>, indeg, a)
    IN  [ok |-> Len(k.topo) = Cardinality(V), topo |-> k.topo, adj |-> k.adj]

ValidateDag(es, V, a) ==
    LET indeg == InDegrees(es, V)
        order == IterOrder(V)
        q0    == SelectSeq(order, LAMBDA v : indeg[v] = 0)
        k     == KahnLoop(q0, <<>>, indeg, a)
    IN  [ok |-> Len(k.topo) = Cardinality(V), topo |-> k.topo, adj |-> k.adj]

NoRet == [cnt |-> EmptyDict, paths |-> <<>>, path |-> <<>>, nbrs |-> {}, ok |-> FALSE, new_edges |-> <<>>, total |-> 0]

\* before the constructor runs: its arguments are bound, nothing is built
Init ==
    /\ pc = "new"
    /\ edges \in EdgeLists(MaxEdges)
    /\ src \in VertexIds
    /\ adj = EmptyDict
    /\ rev_adj = EmptyDict
    /\ vertices = {}
    /\ topo = <<>>
    /\ op = "none"
    /\ arg = <<>>
    /\ ret = NoRet

\* DAG(edges, source)
Construct ==
    /\ pc = "new"
    /\ LET b == BuildAdj(edges, Len(edges))
             V == b.vertices \cup {src}
             k == ValidateDag(edges, V, b.adj)
         IN  /\ UNCHANGED <<edges, src>>
             /\ rev_adj' = b.rev_adj
             /\ vertices' = V
             /\ adj' = k.adj
             /\ topo' = IF k.ok THEN k.topo ELSE <<>>
             /\ pc' = IF k.ok THEN "ready" ELSE "failed"
             /\ UNCHANGED <<op, arg, ret>>

\* ------------------------------------------------------------ path_counts
\* CountEdges with cnt[v] += 1: counts incoming edges, not paths
RECURSIVE CountEdgesPlusOne(_, _, _, _)
CountEdgesPlusOne(out, i, u, cnt) ==
    IF i > Len(out) THEN cnt
    ELSE LET v == out[i][1]
         IN  CountEdgesPlusOne(out, i + 1, u, [cnt EXCEPT ![v] = @ + 1])

\* the inner loop "for v, _ in self.adj[u]: cnt[v] += cnt[u]" from position i
RECURSIVE CountEdges(_, _, _, _)
CountEdges(out, i, u, cnt) ==
    IF i > Len(out) THEN cnt
    ELSE LET v == out[i][1]
         IN  CountEdges(out, i + 1, u, [cnt EXCEPT ![v] = @ + cnt[u]])

\* the loop "for u in self.topo" from position i; st = [cnt, adj]
RECURSIVE CountLoop(_, _, _)
CountLoop(tp, i, st) ==
    IF i > Len(tp) THEN st
    ELSE LET u  == tp[i]
             a2 == Touch(st.adj, u)
         IN  CountLoop(tp, i + 1, [cnt |-> CountEdges(a2[u], 1, u, st.cnt), adj |-> a2])

\* path_counts() on the graph (V, s, tp, a): the dict returned and adj afterwards
PathCounts(V, s, tp, a) ==
    LET cnt0 == [v \in V |-> IF v = s THEN 1 ELSE 0]
    IN  CountLoop(tp, 1, [cnt |-> cnt0, adj |-> a])

\* -------------------------------------------------------- enumerate_paths
\* dfs(u, cost) and its loop over self.adj[u] from position i;
\* st = [res, path, adj] are the closure's res, path and self.adj
RECURSIVE Dfs(_, _, _, _)
RECURSIVE DfsLoop(_, _, _, _, _)
\* DfsLoop that follows each distinct successor once (parallel edges merged)
RECURSIVE DfsLoopDistinct(_, _, _, _, _)
DfsLoopDistinct(u, cost, target, i, st) ==
    IF i > Len(st.adj[u]) THEN st
    ELSE LET v      == st.adj[u][i][1]
             w      == st.adj[u][i][2]
             seen   == \E j \in 1..(i - 1) : st.adj[u][j][1] = v
             pushed == [st EXCEPT !.path = Append(@, v)]
             back   == Dfs(v, cost + w, target, pushed)
             popped == [back EXCEPT !.path = SubSeq(@, 1, Len(@) - 1)]
         IN  DfsLoopDistinct(u, cost, target, i + 1, IF seen THEN st ELSE popped)

\* DfsLoop without path.pop() after the recursive call
RECURSIVE DfsLoopNoPop(_, _, _, _, _)
DfsLoopNoPop(u, cost, target, i, st) ==
    IF i > Len(st.adj[u]) THEN st
    ELSE LET v      == st.adj[u][i][1]
             w      == st.adj[u][i][2]
             pushed == [st EXCEPT !.path = Append(@, v)]
             back   == Dfs(v, cost + w, target, pushed)
         IN  DfsLoopNoPop(u, cost, target, i + 1, back)

Dfs(u, cost, target, st) ==
    IF u = target
    THEN [st EXCEPT !.res = Append(@, <<st.path, cost>>)]
    ELSE DfsLoop(u, cost, target, 1, [st EXCEPT !.adj = Touch(@, u)])

DfsLoop(u, cost, target, i, st) ==
    IF i > Len(st.adj[u]) THEN st
    ELSE LET v      == st.adj[u][i][1]
             w      == st.adj[u][i][2]
             pushed == [st EXCEPT !.path = Append(@, v)]
             back   == Dfs(v, cost + w, target, pushed)
             popped == [back EXCEPT !.path = SubSeq(@, 1, Len(@) - 1)]
         IN  DfsLoop(u, cost, target, i + 1, popped)

EnumeratePaths(s, a, target) == Dfs(s, 0, target, [res |-> <<>>, path |-> <<s>>, adj |-> a])

\* ----------------------------------------------------------- neighbors_of
FirstsOf(lst) == {lst[i][1] : i \in 1..Len(lst)}

\* NeighborsOf without the predecessors read from rev_adj
NeighborsOfSuccessorsOnly(a, ra, v) ==
    LET ra2 == Touch(ra, v)
        a2  == Touch(a, v)
        S   == FirstsOf(a2[v])
    IN  [nbrs |-> S \ {v}, adj |-> a2, rev_adj |-> ra2]

\* neighbors_of(v): the set returned and both mappings after the reads
NeighborsOf(a, ra, v) ==
    LET ra2 == Touch(ra, v)
        a2  == Touch(a, v)
        S   == FirstsOf(ra2[v]) \cup FirstsOf(a2[v])
    IN  [nbrs |-> S \ {v}, adj |-> a2, rev_adj |-> ra2]

\* ----------------------------------------------- propose_vprime_insertion
\* list.sort(key=x[1], reverse=True): stable, descending by the second item
RECURSIVE InsertDesc(_, _)
InsertDesc(sorted, x) ==
    IF sorted = <<>> THEN <<x>>
    ELSE IF Head(sorted)[2] >= x[2] THEN <<Head(sorted)>> \o InsertDesc(Tail(sorted), x)
    ELSE <<x>> \o sorted

\* SortDesc without reverse=True, the candidates keep their ascending order
RECURSIVE InsertAsc(_, _)
InsertAsc(sorted, x) ==
    IF sorted = <<>> THEN <<x>>
    ELSE IF Head(sorted)[2] <= x[2] THEN <<Head(sorted)>> \o InsertAsc(Tail(sorted), x)
    ELSE <<x>> \o sorted

RECURSIVE SortAsc(_)
SortAsc(lst) ==
    IF lst = <<>> THEN <<>>
    ELSE InsertAsc(SortAsc(SubSeq(lst, 1, Len(lst) - 1)), lst[Len(lst)])

RECURSIVE SortDesc(_)
SortDesc(lst) ==
    IF lst = <<>> THEN <<>>
    ELSE InsertDesc(SortDesc(SubSeq(lst, 1, Len(lst) - 1)), lst[Len(lst)])

\* cnt.get(u, 0)
CntGet(cnt, u) == IF u \in DOMAIN cnt THEN cnt[u] ELSE 0

\* Candidates without "if u not in banned"
CandidatesUnfiltered(V, cnt, banned) ==
    LET all == IterOrder(V)
    IN  [i \in 1..Len(all) |-> <<all[i], CntGet(cnt, all[i])>>]

\* candidates before the sort
Candidates(V, cnt, banned) ==
    LET permitted == SelectSeq(IterOrder(V), LAMBDA u : u \notin banned)
    IN  [i \in 1..Len(permitted) |-> <<permitted[i], CntGet(cnt, permitted[i])>>]

\* Greedy with "if total >= max_paths: break"
RECURSIVE GreedyBreakAtEqual(_, _, _, _, _)
GreedyBreakAtEqual(cands, i, total, chosen, max_paths) ==
    IF i > Len(cands) THEN [total |-> total, chosen |-> chosen]
    ELSE LET u == cands[i][1]
             c == cands[i][2]
         IN  IF c <= 0 THEN GreedyBreakAtEqual(cands, i + 1, total, chosen, max_paths)
             ELSE IF total + c >= max_paths
                  THEN [total |-> total + c, chosen |-> Append(chosen, u)]
                  ELSE GreedyBreakAtEqual(cands, i + 1, total + c, Append(chosen, u), max_paths)

\* the loop "for u, c in candidates" from position i
RECURSIVE Greedy(_, _, _, _, _)
Greedy(cands, i, total, chosen, max_paths) ==
    IF i > Len(cands) THEN [total |-> total, chosen |-> chosen]
    ELSE LET u == cands[i][1]
             c == cands[i][2]
         IN  IF c <= 0 THEN Greedy(cands, i + 1, total, chosen, max_paths)
             ELSE IF total + c > max_paths
                  THEN [total |-> total + c, chosen |-> Append(chosen, u)]
                  ELSE Greedy(cands, i + 1, total + c, Append(chosen, u), max_paths)

NewEdges(chosen, vprime, weight_default) ==
    [i \in 1..Len(chosen) |-> <<chosen[i], vprime, weight_default>>]

\* propose_vprime_insertion(v, weight_default) on the graph (V, s, tp, a, ra)
ProposeVprimeInsertion(V, s, tp, a, ra, v, weight_default) ==
    LET pcs       == PathCounts(V, s, tp, a)
        cnt       == pcs.cnt
        max_paths == CntGet(cnt, v)
        nb        == NeighborsOf(pcs.adj, ra, v)
        cands     == SortDesc(Candidates(V, cnt, nb.nbrs))
        g         == Greedy(cands, 1, 0, <<>>, max_paths)
        ok        == ~(g.total <= max_paths)
    IN  [ok        |-> ok,
         new_edges |-> IF ok THEN NewEdges(g.chosen, SetMax(V) + 1, weight_default) ELSE <<>>,
         total     |-> g.total,
         adj       |-> nb.adj,
         rev_adj   |-> nb.rev_adj]

\* ---------------------------------------------------------------- actions
\* g.path_counts()
CallPathCounts ==
    /\ pc = "ready"
    /\ LET r == PathCounts(vertices, src, topo, adj)
       IN  /\ adj' = r.adj
           /\ ret' = [NoRet EXCEPT !.cnt = r.cnt]
    /\ op' = "path_counts"
    /\ arg' = <<>>
    /\ pc' = "returned"
    /\ UNCHANGED <<edges, src, rev_adj, vertices, topo>>

\* g.enumerate_paths(target)
CallEnumeratePaths ==
    /\ pc = "ready"
    /\ \E target \in VertexIds :
         LET r == EnumeratePaths(src, adj, target)
         IN  /\ adj' = r.adj
             /\ ret' = [NoRet EXCEPT !.paths = r.res, !.path = r.path]
             /\ arg' = <<target>>
    /\ op' = "enumerate_paths"
    /\ pc' = "returned"
    /\ UNCHANGED <<edges, src, rev_adj, vertices, topo>>

\* g.neighbors_of(v)
CallNeighborsOf ==
    /\ pc = "ready"
    /\ \E v \in VertexIds :
         LET r == NeighborsOf(adj, rev_adj, v)
         IN  /\ adj' = r.adj
             /\ rev_adj' = r.rev_adj
             /\ ret' = [NoRet EXCEPT !.nbrs = r.nbrs]
             /\ arg' = <<v>>
    /\ op' = "neighbors_of"
    /\ pc' = "returned"
    /\ UNCHANGED <<edges, src, vertices, topo>>

\* g.propose_vprime_insertion(v, weight_default)
CallProposeVprimeInsertion ==
    /\ pc = "ready"
    /\ \E v \in VertexIds, weight_default \in DefaultWeights :
         LET r == ProposeVprimeInsertion(vertices, src, topo, adj, rev_adj, v, weight_default)
         IN  /\ adj' = r.adj
             /\ rev_adj' = r.rev_adj
             /\ ret' = [NoRet EXCEPT !.ok = r.ok, !.new_edges = r.new_edges, !.total = r.total]
             /\ arg' = <<v, weight_default>>
    /\ op' = "propose_vprime_insertion"
    /\ pc' = "returned"
    /\ UNCHANGED <<edges, src, vertices, topo>>

\* the caller drops the result; the instance is ready for the next call
ReturnToCaller ==
    /\ pc = "returned"
    /\ pc' = "ready"
    /\ op' = "none"
    /\ arg' = <<>>
    /\ ret' = NoRet
    /\ UNCHANGED graph

Next ==
    \/ Construct
    \/ CallPathCounts
    \/ CallEnumeratePaths
    \/ CallNeighborsOf
    \/ CallProposeVprimeInsertion
    \/ ReturnToCaller

Spec == Init /\ [][Next]_vars

\* ================================================================ claims
\* what the claims speak of, stated on the edge list alone
EdgeIdx == 1..Len(edges)
Succ(u) == {edges[i][2] : i \in {j \in EdgeIdx : edges[j][1] = u}}
Pred(v) == {edges[i][1] : i \in {j \in EdgeIdx : edges[j][2] = v}}

\* the vertices reached from the set S by zero or more edges
RECURSIVE ReachableFrom(_)
ReachableFrom(S) ==
    LET T == S \cup UNION {Succ(u) : u \in S}
    IN  IF T = S THEN S ELSE ReachableFrom(T)

HasCycle == \E i \in EdgeIdx : edges[i][1] \in ReachableFrom({edges[i][2]})

Constructed == pc \in {"ready", "returned"}
Returned(name) == pc = "returned" /\ op = name

\* position of x in the sequence s (0 when absent)
IndexOf(s, x) == IF \E i \in 1..Len(s) : s[i] = x THEN CHOOSE i \in 1..Len(s) : s[i] = x ELSE 0

SeqToSet(s) == {s[i] : i \in 1..Len(s)}

RECURSIVE SumSeq(_)
SumSeq(s) == IF s = <<>> THEN 0 ELSE Head(s) + SumSeq(Tail(s))

RECURSIVE SumOver(_, _)
SumOver(f, S) == IF S = {} THEN 0 ELSE LET x == CHOOSE y \in S : TRUE IN f[x] + SumOver(f, S \ {x})

\* path_counts() of the constructed graph
CurrentCounts == PathCounts(vertices, src, topo, adj).cnt

\* C1: construction fails with the cycle error exactly when the edge list
\* holds a directed cycle (a self-loop counts); every acyclic edge list
\* constructs, whatever the source, also a source that is in no edge.
C1_CycleIffFails ==
    pc # "new" => ((pc = "failed") <=> HasCycle)

\* a cycle of three edges without a self-loop was refused
C1_Witness ==
    /\ pc = "failed"
    /\ Len(edges) = 3
    /\ \A i \in EdgeIdx : edges[i][1] # edges[i][2]
    /\ \A i, j \in EdgeIdx : ~(edges[i][1] = edges[j][2] /\ edges[i][2] = edges[j][1])

\* C9: after a successful construction topo holds every vertex exactly once
\* and every edge goes from an earlier to a later position.
C9_TopoOrder ==
    Constructed =>
        /\ Len(topo) = Cardinality(vertices)
        /\ SeqToSet(topo) = vertices
        /\ \A i \in EdgeIdx : IndexOf(topo, edges[i][1]) < IndexOf(topo, edges[i][2])

\* three edges were ordered around a source that is in no edge
C9_Witness ==
    /\ pc = "ready"
    /\ Len(edges) = 3
    /\ \A i \in EdgeIdx : src \notin {edges[i][1], edges[i][2]}
    /\ Len(topo) = 4

\* C3: path_counts() gives every vertex a count >= 0, 1 to the source, 0 to
\* every vertex the source does not reach, and to every other vertex with
\* incoming edges the sum of the counts of the tails of its incoming edges,
\* one term per edge of the list.
C3_PathCounts ==
    Returned("path_counts") =>
        /\ DOMAIN ret.cnt = vertices
        /\ \A v \in vertices : ret.cnt[v] \in Nat
        /\ ret.cnt[src] = 1
        /\ \A v \in vertices \ ReachableFrom({src}) : ret.cnt[v] = 0
        /\ \A v \in vertices \ {src} :
             Pred(v) # {} =>
               ret.cnt[v] = SumSeq([k \in 1..Len(SelectSeq(edges, LAMBDA e : e[2] = v)) |->
                                       ret.cnt[SelectSeq(edges, LAMBDA e : e[2] = v)[k][1]]])

\* counted: a source with an incoming edge and a vertex with two paths
C3_Witness ==
    /\ Returned("path_counts")
    /\ Pred(src) # {}
    /\ \E v \in vertices : ret.cnt[v] = 2

\* C2: enumerate_paths(target) returns as many entries as path_counts()
\* counts for target, for every target of the vertex set.
C2_CountMatchesEnumeration ==
    (Returned("enumerate_paths") /\ arg[1] \in vertices) =>
        Len(ret.paths) = CurrentCounts[arg[1]]

\* two paths over parallel edges were enumerated
C2_Witness ==
    /\ Returned("enumerate_paths")
    /\ arg[1] \in vertices
    /\ Len(ret.paths) = 2
    /\ ret.paths[1][1] = ret.paths[2][1]

\* the edges of the list that join u to v
EdgesBetween(u, v) == {i \in EdgeIdx : edges[i][1] = u /\ edges[i][2] = v}

\* the costs a walk along nodes can have, one per choice of parallel edges
RECURSIVE WalkCosts(_)
WalkCosts(nodes) ==
    IF Len(nodes) <= 1 THEN {0}
    ELSE {c + edges[i][3] : c \in WalkCosts(SubSeq(nodes, 1, Len(nodes) - 1)),
                            i \in EdgesBetween(nodes[Len(nodes) - 1], nodes[Len(nodes)])}

\* C4: every entry of enumerate_paths(target) runs from the source to target
\* along edges of the graph without repeating a vertex, and its cost is the
\* sum of the weights followed (0 for the path that is the source alone);
\* the list is empty when the source does not reach target; the path
\* prefix is back at the source alone on return.
C4_EnumeratedPaths ==
    Returned("enumerate_paths") =>
        /\ \A k \in 1..Len(ret.paths) :
             LET nodes == ret.paths[k][1]
                 cost  == ret.paths[k][2]
             IN  /\ Len(nodes) >= 1
                 /\ nodes[1] = src
                 /\ nodes[Len(nodes)] = arg[1]
                 /\ \A i \in 1..(Len(nodes) - 1) : EdgesBetween(nodes[i], nodes[i + 1]) # {}
                 /\ \A i, j \in 1..Len(nodes) : i # j => nodes[i] # nodes[j]
                 /\ cost \in WalkCosts(nodes)
                 /\ (Len(nodes) = 1 => cost = 0)
        /\ (arg[1] \notin ReachableFrom({src}) => ret.paths = <<>>)
        /\ ret.path = <<src>>

\* a path of two edges and a second path were enumerated
C4_Witness ==
    /\ Returned("enumerate_paths")
    /\ Len(ret.paths) = 2
    /\ \E k \in 1..2 : Len(ret.paths[k][1]) = 3 /\ ret.paths[k][2] = edges[1][3] + edges[3][3]

\* C5: neighbors_of(v) never holds v, and holds u # v exactly when the edge
\* list has an edge u -> v or an edge v -> u.
C5_Neighbors ==
    Returned("neighbors_of") =>
        /\ arg[1] \notin ret.nbrs
        /\ \A u \in (VertexIds \cup vertices) \ {arg[1]} :
             u \in ret.nbrs <=> (u \in Pred(arg[1]) \/ u \in Succ(arg[1]))

\* a predecessor and a successor were both returned
C5_Witness ==
    /\ Returned("neighbors_of")
    /\ Pred(arg[1]) # {}
    /\ Succ(arg[1]) # {}
    /\ Pred(arg[1]) \cup Succ(arg[1]) = ret.nbrs
    /\ Cardinality(ret.nbrs) = 2

\* the parents of the edges a proposal returned, in order
Parents == [i \in 1..Len(ret.new_edges) |-> ret.new_edges[i][1]]

\* neighbors_of(v) of the constructed graph
NeighborsNow(v) == NeighborsOf(adj, rev_adj, v).nbrs

\* C6: a successful proposal returns edges (parent, V', weight_default) with
\* one V' above every vertex identifier, the parents distinct vertices of
\* the graph outside neighbors_of(v), and their counts sum above the count
\* of v.
C6_ProposalSound ==
    (Returned("propose_vprime_insertion") /\ ret.ok) =>
        /\ ret.new_edges # <<>>
        /\ \A i \in 1..Len(ret.new_edges) :
             /\ ret.new_edges[i][3] = arg[2]
             /\ ret.new_edges[i][2] = ret.new_edges[1][2]
             /\ \A x \in vertices : ret.new_edges[i][2] > x
             /\ Parents[i] \in vertices
             /\ Parents[i] \notin NeighborsNow(arg[1])
        /\ \A i, j \in 1..Len(Parents) : i # j => Parents[i] # Parents[j]
        /\ SumOver(CurrentCounts, SeqToSet(Parents)) > CntGet(CurrentCounts, arg[1])

\* a proposal of two parents succeeded although v has a neighbour that
\* counts
C6_Witness ==
    /\ Returned("propose_vprime_insertion")
    /\ ret.ok
    /\ Len(ret.new_edges) = 2
    /\ arg[2] # 0
    /\ \E u \in NeighborsNow(arg[1]) : CurrentCounts[u] > 0

\* the vertices propose_vprime_insertion(v, ...) may take as parents
Permitted(v) == vertices \ NeighborsNow(v)

\* C7: the proposal fails, with no edges, exactly when the counts of all
\* vertices outside neighbors_of(v) (v included) sum to at most the count of
\* v; otherwise it succeeds.
C7_FailsIffInfeasible ==
    (Returned("propose_vprime_insertion") /\ arg[1] \in vertices) =>
        /\ (~ret.ok) <=> (SumOver(CurrentCounts, Permitted(arg[1])) <= CurrentCounts[arg[1]])
        /\ (~ret.ok) => ret.new_edges = <<>>

\* a proposal failed for a vertex the source reaches
C7_Witness ==
    /\ Returned("propose_vprime_insertion")
    /\ arg[1] \in vertices
    /\ ~ret.ok
    /\ CurrentCounts[arg[1]] >= 1
    /\ Cardinality(Permitted(arg[1])) >= 2

\* C8 (as claimed): no call after construction changes the edge list, the
\* adjacency mappings (key sets and sequences), the vertex set, the source
\* or the topological order.
C8_CallsChangeNothing ==
    [][Constructed => UNCHANGED graph]_vars

MaxCount == SetMax({CurrentCounts[x] : x \in vertices})

\* the first two parts of C10: no permitted vertex left out counts more than
\* a chosen parent, and the parents without the last sum to at most the
\* count of v
GreedyPrefix ==
    /\ \A u \in Permitted(arg[1]) \ SeqToSet(Parents), p \in SeqToSet(Parents) :
         CurrentCounts[u] <= CurrentCounts[p]
    /\ SumOver(CurrentCounts, SeqToSet(SubSeq(Parents, 1, Len(Parents) - 1)))
         <= CntGet(CurrentCounts, arg[1])

VHasMaxPositiveCount ==
    /\ arg[1] \in vertices
    /\ CurrentCounts[arg[1]] = MaxCount
    /\ CurrentCounts[arg[1]] > 0

\* C10 (as claimed): on success the parents are a shortest prefix of the
\* permitted positive-count vertices in descending count order, and v is
\* among them whenever v has the maximum count and a positive count.
C10_AsClaimed ==
    (Returned("propose_vprime_insertion") /\ ret.ok) =>
        /\ GreedyPrefix
        /\ VHasMaxPositiveCount => arg[1] \in SeqToSet(Parents)

\* C10 (amended): as claimed, but v is among the parents when v has the
\* maximum count, a positive count, and no other permitted vertex has the
\* same count.
C10_GreedyPrefix ==
    (Returned("propose_vprime_insertion") /\ ret.ok) =>
        /\ GreedyPrefix
        /\ (VHasMaxPositiveCount /\ \A u \in Permitted(arg[1]) \ {arg[1]} :
                                      CurrentCounts[u] # CurrentCounts[arg[1]])
             => arg[1] \in SeqToSet(Parents)

\* v alone has the maximum count and is the first of two parents
C10_Witness ==
    /\ Returned("propose_vprime_insertion")
    /\ ret.ok
    /\ VHasMaxPositiveCount
    /\ \A u \in vertices \ {arg[1]} : CurrentCounts[u] < CurrentCounts[arg[1]]
    /\ Len(Parents) = 2
    /\ Parents[1] = arg[1]
====
